---- MODULE Spec2Model ----
(***************************************************************************)
(* NearCLP (contract/src/lib.rs): a constant-product market maker pairing  *)
(* NEAR with one reserve token per pool.                                   *)
(*                                                                         *)
(* The persistent state is the NearCLP struct (owner, fee_dst, pools).     *)
(* `pools` is an UnorderedMap<AccountId, Pool>: `get` hands out a          *)
(* deserialised COPY of the stored Pool, and only `set_pool` writes the    *)
(* copy's near_bal / token_bal / total_shares back.  The nested            *)
(* `shares` UnorderedMap writes each entry to storage as soon as `insert`  *)
(* is called on it.  A panic makes the host discard every write of the     *)
(* invocation.                                                             *)
(*                                                                         *)
(* Cross-contract calls are promises: the handler that schedules them      *)
(* returns first, they resolve in later, separate invocations.             *)
(***************************************************************************)
EXTENDS Integers, Sequences, FiniteSets, Bags, TLC

\* ------------------------------------------------------------------ bounds
MaxBal == 6         \* cap on near_bal, token_bal and total_shares of a pool
MaxAmt == 3         \* largest amount a caller passes or attaches
MaxPending == 1     \* promise bundles in flight at once
BalanceBits == 5    \* bits of a Balance (128 in the source)

\* --------------------------------------------------------------- accounts
current_account_id == "clp_near"
Users == {"owner_near", "pre_near"}
InvalidAccount == "BAD ID"
Tokens == {"token1_near", "token2_near"}
NoAccount == "-"

is_valid_account_id(a) == a # InvalidAccount

Amounts == 0..MaxAmt
Shares == 0..MaxBal

VARIABLES
    owner,        \* NearCLP.owner
    fee_dst,      \* NearCLP.fee_dst
    pool_keys,    \* keys of NearCLP.pools, in insertion order
    pools,        \* NearCLP.pools: token -> Pool, for the tokens in pool_keys
    promises,     \* bag of promise bundles scheduled and not yet resolved
    last,         \* the last invocation: what was called and how it ended
    held          \* reserve tokens the contract holds at the token contracts,
                  \* for the tokens a specification keeps account of

contract == <<owner, fee_dst, pool_keys, pools>>
vars == <<owner, fee_dst, pool_keys, pools, promises, last, held>>

\* ------------------------------------------------------------ observation
\* What the last invocation was: its outcome ("ok" or the panic message) and,
\* when it succeeded, the method, the predecessor, the pool it named and the
\* amounts it logged or moved.
Call(op, caller, token, err, near, tokens, shares, lim, first) ==
    [op |-> op, caller |-> caller, token |-> token, err |-> err, near |-> near,
     tokens |-> tokens, shares |-> shares, lim |-> lim, first |-> first]

Returned(op, caller, token) == Call(op, caller, token, "ok", 0, 0, 0, 0, FALSE)

Failed(err) == Call(NoAccount, NoAccount, NoAccount, err, 0, 0, 0, 0, FALSE)

\* A panic: the host drops every write of the invocation and schedules nothing.
Panic(op, caller, token, err) ==
    /\ last' = Failed(err)
    /\ UNCHANGED <<contract, promises, held>>

\* ---------------------------------------------------------------- promises
\* A promise bundle is what one invocation scheduled:
\*   "add_liquidity"  transfer_from(from -> contract, tokens of token), then
\*                    add_liquidity_transfer_callback(token); near and shares are
\*                    what the deposit added to the pool beside the tokens
\*   "transfers"      near to near_to and tokens of token to token_to, nothing
\*                    chained behind them
\*   a swap kernel    transfer_from(from -> contract, tokens of token), then the
\*                    kernel's commit: lim is the caller's bound, out the amount
\*                    wanted by an exact-out swap, token2 the pool bought from
Promise(kind, token, token2, from, near_to, near, token_to, tokens, shares, lim, out) ==
    [kind |-> kind, token |-> token, token2 |-> token2, from |-> from,
     near_to |-> near_to, near |-> near, token_to |-> token_to, tokens |-> tokens,
     shares |-> shares, lim |-> lim, out |-> out]

Transfers(token, near_to, near, token_to, tokens) ==
    Promise("transfers", token, NoAccount, current_account_id, near_to, near,
            token_to, tokens, 0, 0, 0)

Schedule(p) == promises (+) SetToBag({p})
Resolve(p) == promises (-) SetToBag({p})
InFlight == BagToSet(promises)
CanSchedule == BagCardinality(promises) < MaxPending

\* -------------------------------------------------------------------- Pool
\* A constructor that hands out a pool already holding a unit of each reserve.
Pool_new_funded ==
    [near_bal |-> 1, token_bal |-> 1, total_shares |-> 0,
     shares |-> [a \in Users |-> 0]]

Pool_new ==
    [near_bal |-> 0, token_bal |-> 0, total_shares |-> 0,
     shares |-> [a \in Users |-> 0]]

PoolInfo(p) == <<p.near_bal, p.token_bal, p.total_shares>>

pool_info(token) ==
    IF token \in DOMAIN pools THEN PoolInfo(pools[token]) ELSE <<>>

list_pools == pool_keys

must_get_pool(token) == pools[token]

set_pool(token, p) == [pools EXCEPT ![token] = p]

Sum(f) ==
    LET RECURSIVE S(_)
        S(D) == IF D = {} THEN 0
                ELSE LET a == CHOOSE x \in D : TRUE IN f[a] + S(D \ {a})
    IN S(DOMAIN f)

\* ------------------------------------------------------------------- admin
assert_owner(caller) == caller = owner

\* set_fee_dst without the check of the predecessor.
set_fee_dst_by_anyone(caller, new_fee_dst) ==
    IF ~is_valid_account_id(new_fee_dst) THEN
        Panic("set_fee_dst", caller, NoAccount, "fee_dst account ID is invalid.")
    ELSE
        /\ fee_dst' = new_fee_dst
        /\ UNCHANGED held
        /\ last' = Returned("set_fee_dst", caller, NoAccount)
        /\ UNCHANGED <<owner, pool_keys, pools, promises>>

set_fee_dst(caller, new_fee_dst) ==
    IF caller # owner THEN
        Panic("set_fee_dst", caller, NoAccount, "Only owner can change fee_dst")
    ELSE IF ~is_valid_account_id(new_fee_dst) THEN
        Panic("set_fee_dst", caller, NoAccount, "fee_dst account ID is invalid.")
    ELSE
        /\ fee_dst' = new_fee_dst
        /\ UNCHANGED held
        /\ last' = Returned("set_fee_dst", caller, NoAccount)
        /\ UNCHANGED <<owner, pool_keys, pools, promises>>

change_owner(caller, new_owner) ==
    IF ~assert_owner(caller) THEN
        Panic("change_owner", caller, NoAccount, "Only the owner can call this function")
    ELSE IF ~is_valid_account_id(new_owner) THEN
        Panic("change_owner", caller, NoAccount, "fee_dst account ID is invalid.")
    ELSE
        /\ owner' = new_owner
        /\ UNCHANGED held
        /\ last' = Returned("change_owner", caller, NoAccount)
        /\ UNCHANGED <<fee_dst, pool_keys, pools, promises>>

\* --------------------------------------------------------- pool management
\* create_pool without the assert on what `insert` returned: the insert stays.
create_pool_overwriting(caller, token) ==
    /\ pools' = [t \in DOMAIN pools \cup {token} |->
                    IF t = token THEN Pool_new ELSE pools[t]]
    /\ pool_keys' = IF token \in DOMAIN pools THEN pool_keys
                    ELSE Append(pool_keys, token)
    /\ UNCHANGED held
    /\ last' = Returned("create_pool", caller, token)
    /\ UNCHANGED <<owner, fee_dst, promises>>

\* UnorderedMap::insert overwrites and returns the old value; the assert on that
\* value panics, which discards the overwrite.
create_pool(caller, token) ==
    IF token \in DOMAIN pools THEN
        Panic("create_pool", caller, token, "E1")
    ELSE
        /\ pools' = [t \in DOMAIN pools \cup {token} |->
                        IF t = token THEN Pool_new ELSE pools[t]]
        /\ pool_keys' = Append(pool_keys, token)
        /\ UNCHANGED held
        /\ last' = Returned("create_pool", caller, token)
        /\ UNCHANGED <<owner, fee_dst, promises>>

\* --------------------------------------------------------------- liquidity
\* Model bound: the pool a handler stores stays within MaxBal.
WithinBounds(p) ==
    /\ p.near_bal <= MaxBal
    /\ p.token_bal <= MaxBal
    /\ p.total_shares <= MaxBal

\* A first deposit that prices the tokens one to one whatever the caller offered.
first_deposit_at_par(p, caller, near_amount, max_token_amount) ==
    [near_bal |-> near_amount,
     token_bal |-> near_amount,
     total_shares |-> near_amount,
     shares |-> [p.shares EXCEPT ![caller] = near_amount]]

\* A first deposit that takes the reserves and mints nothing.
first_deposit_unminted(p, caller, near_amount, max_token_amount) ==
    [near_bal |-> near_amount,
     token_bal |-> max_token_amount,
     total_shares |-> 0,
     shares |-> p.shares]

\* lib.rs 185-190: the very first deposit defines the ratio.
first_deposit(p, caller, near_amount, max_token_amount) ==
    [near_bal |-> near_amount,
     token_bal |-> max_token_amount,
     total_shares |-> near_amount,
     shares |-> [p.shares EXCEPT ![caller] = near_amount]]

\* Balance is u128; here a Balance has BalanceBits bits.  A u128 product or sum
\* that does not fit panics where the build checks overflow and wraps where it
\* does not: both are outcomes, Overflow marking the panic.
Modulus == 2 ^ BalanceBits
BalanceMax == Modulus - 1
Overflow == Modulus

u128_mul(a, b) ==
    IF a * b <= BalanceMax THEN {a * b} ELSE {Overflow, (a * b) % Modulus}

u128_add(a, b) ==
    IF a + b <= BalanceMax THEN {a + b} ELSE {Overflow, (a + b) % Modulus}

\* the outcomes of `x / d + k` over the outcomes xs of a product
u128_div_add(xs, d, k) ==
    UNION {IF x = Overflow THEN {Overflow} ELSE u128_add(x \div d, k) : x \in xs}

\* lib.rs 192: the product is taken in Balance, not widened.
computed_token_amount(p, near_amount) ==
    u128_div_add(u128_mul(near_amount, p.token_bal), p.near_bal, 1)

\* lib.rs 193: the divisor is the deposit itself, not the pool's near_bal; the
\* product is taken in Balance, not widened.
shares_minted(p, near_amount) ==
    u128_div_add(u128_mul(near_amount, p.total_shares), near_amount, 0)

\* lib.rs 197-203
next_deposit(p, caller, near_amount, tokens, minted) ==
    [near_bal |-> p.near_bal + near_amount,
     token_bal |-> p.token_bal + tokens,
     total_shares |-> p.total_shares + minted,
     shares |-> [p.shares EXCEPT ![caller] = p.shares[caller] + minted]]

\* lib.rs 218-246: the pool is stored, then transfer_from(caller -> contract,
\* computed_token_amount) is scheduled with add_liquidity_transfer_callback behind it.
add_liquidity_commit(caller, token, p, near_amount, tokens, minted, lim, first) ==
    /\ WithinBounds(p)
    /\ CanSchedule
    /\ pools' = set_pool(token, p)
    /\ promises' = Schedule(Promise("add_liquidity", token, NoAccount, caller,
                                    NoAccount, near_amount, current_account_id,
                                    tokens, minted, 0, 0))
    /\ UNCHANGED held
    /\ last' = Call("add_liquidity", caller, token, "ok", near_amount, tokens,
                    minted, lim, first)
    /\ UNCHANGED <<owner, fee_dst, pool_keys>>

add_liquidity(caller, token, near_amount, max_token_amount, min_shares_amount) ==
    IF token \notin DOMAIN pools THEN
        Panic("add_liquidity", caller, token, "no pool")
    ELSE IF ~(near_amount > 0 /\ max_token_amount > 0) THEN
        Panic("add_liquidity", caller, token, "E2")
    ELSE
        LET p == must_get_pool(token) IN
        IF p.total_shares = 0 THEN
            add_liquidity_commit(caller, token,
                first_deposit(p, caller, near_amount, max_token_amount),
                near_amount, max_token_amount, near_amount, min_shares_amount, TRUE)
        ELSE IF p.near_bal = 0 THEN
            Panic("add_liquidity", caller, token, "attempt to divide by zero")
        ELSE
            \E tokens \in computed_token_amount(p, near_amount),
               minted \in shares_minted(p, near_amount) :
                IF tokens = Overflow \/ minted = Overflow THEN
                    Panic("add_liquidity", caller, token, "attempt to multiply with overflow")
                ELSE IF ~(max_token_amount >= tokens) THEN
                    Panic("add_liquidity", caller, token, "E3")
                ELSE IF ~(min_shares_amount <= minted) THEN
                    Panic("add_liquidity", caller, token, "E4")
                ELSE
                    add_liquidity_commit(caller, token,
                        next_deposit(p, caller, near_amount, tokens, minted),
                        near_amount, tokens, minted, min_shares_amount, FALSE)

\* A redemption rounded up instead of down.
redeemed_rounded_up(shares, bal, total_shares) ==
    ((shares * bal) \div total_shares) + 1

\* lib.rs 270-273: the factors are widened to u256, twice the bits of a Balance,
\* before the product; floor division; as_u128 narrows the quotient back.
redeemed(shares, bal, total_shares) ==
    ((shares * bal) % (Modulus * Modulus)) \div total_shares

\* lib.rs 282-285 on the handler's copy of the pool.
withdrawn(p, caller, shares, near_amount, token_amount) ==
    [near_bal |-> p.near_bal - near_amount,
     token_bal |-> p.token_bal - token_amount,
     total_shares |-> p.total_shares - shares,
     shares |-> [p.shares EXCEPT ![caller] = p.shares[caller] - shares]]

\* lib.rs 257-300.  The handler changes its copy `p`; set_pool is never called, so
\* of the copy only the `shares.insert` reaches storage.  Both transfers are
\* scheduled (joined by `and`) with no callback behind them.
withdraw_liquidity(caller, token, shares, min_near, min_tokens) ==
    IF ~(shares > 0 /\ min_near > 0 /\ min_tokens > 0) THEN
        Panic("withdraw_liquidity", caller, token, "E2")
    ELSE IF token \notin DOMAIN pools THEN
        Panic("withdraw_liquidity", caller, token, "no pool")
    ELSE
        LET p == must_get_pool(token)
            current_shares == p.shares[caller]
        IN
        IF ~(current_shares >= shares) THEN
            Panic("withdraw_liquidity", caller, token, "E5")
        ELSE IF p.total_shares = 0 THEN
            Panic("withdraw_liquidity", caller, token, "attempt to divide by zero")
        ELSE
            LET near_amount == redeemed(shares, p.near_bal, p.total_shares)
                token_amount == redeemed(shares, p.token_bal, p.total_shares)
                p1 == withdrawn(p, caller, shares, near_amount, token_amount)
            IN  IF ~(near_amount >= min_near /\ token_amount >= min_tokens) THEN
                    Panic("withdraw_liquidity", caller, token, "E6")
                ELSE
                    /\ CanSchedule
                    /\ pools' = [pools EXCEPT ![token].shares = p1.shares]
                    /\ promises' = Schedule(Transfers(token, caller, near_amount,
                                                       caller, token_amount))
                    /\ UNCHANGED held
                    /\ last' = Call("withdraw_liquidity", caller, token, "ok",
                                    near_amount, token_amount, shares, 0, FALSE)
                    /\ UNCHANGED <<owner, fee_dst, pool_keys>>

shares_balance_of(token, account) == must_get_pool(token).shares[account]

\* --------------------------------------------------------------- callbacks
\* The token contract moved n of `token` to the contract (transfer_from), or from
\* it (transfer); it cannot move from the contract more than the contract holds.
tokens_received(token, n) ==
    IF token \in DOMAIN held THEN [held EXCEPT ![token] = @ + n] ELSE held

covered(token, n) == token \in DOMAIN held => held[token] >= n

tokens_sent(token, n) ==
    IF token \in DOMAIN held THEN [held EXCEPT ![token] = @ - n] ELSE held

\* The callback without the check of its predecessor.
add_liquidity_transfer_callback_unauthenticated(predecessor, token, transfer, is_promise_success) ==
    /\ UNCHANGED contract
    /\ last' = IF ~is_promise_success THEN Failed("callback")
               ELSE Call("add_liquidity_transfer_callback", transfer.from, token,
                         "ok", transfer.near, transfer.tokens, transfer.shares, 0, FALSE)

\* lib.rs 546-572: nothing is written on either outcome; a failed transfer only
\* panics the callback itself.  `transfer` is the promise the callback is chained
\* behind; the record of a callback that returned names the deposit it closed.
add_liquidity_transfer_callback(predecessor, token, transfer, is_promise_success) ==
    /\ UNCHANGED contract
    /\ last' = IF current_account_id # predecessor
                    THEN Failed("Can be called only as a callback")
               ELSE IF ~is_promise_success THEN Failed("callback")
               ELSE Call("add_liquidity_transfer_callback", transfer.from, token,
                         "ok", transfer.near, transfer.tokens, transfer.shares, 0, FALSE)

\* The host resolves the transfer_from of an add_liquidity and runs the callback
\* chained behind it, as the contract itself.
add_liquidity_transfer_resolves(r, success) ==
    /\ r.kind = "add_liquidity"
    /\ promises' = Resolve(r)
    /\ held' = IF success THEN tokens_received(r.token, r.tokens) ELSE held
    /\ add_liquidity_transfer_callback(current_account_id, r.token, r, success)

\* Anyone can name the public method directly; no promise precedes it then.
NoTransfer ==
    Promise("none", NoAccount, NoAccount, NoAccount, NoAccount, 0, NoAccount, 0, 0, 0, 0)

add_liquidity_transfer_callback_called(caller, token) ==
    /\ UNCHANGED <<promises, held>>
    /\ add_liquidity_transfer_callback(caller, token, NoTransfer, FALSE)

\* The host resolves transfers nothing waits for (lib.rs 288-298): whether they
\* succeed or fail, no code of the contract runs; only the receipt tells.  The
\* transfers of a bundle are joined by `and`: when the near transfer is the one
\* that fails, the tokens may have left all the same.
transfers_resolve(r, success) ==
    /\ r.kind = "transfers"
    /\ promises' = Resolve(r)
    /\ IF success THEN covered(r.token, r.tokens) /\ held' = tokens_sent(r.token, r.tokens)
       ELSE \/ held' = held
            \/ r.near > 0 /\ covered(r.token, r.tokens) /\ held' = tokens_sent(r.token, r.tokens)
    /\ last' = Call("transfers", NoAccount, r.token,
                    IF success THEN "ok" ELSE "transfer failed",
                    r.near, r.tokens, 0, 0, FALSE)
    /\ UNCHANGED contract

\* ------------------------------------------------------------------ pricing
\* The pricing kernel and the swap kernels live in the contract's `internal`
\* module; they are modelled from the design (sections 4.3 and 4.5).
FeeNum == 3
FeeDen == 1000

depleted(in_bal, out_bal) == in_bal = 0 \/ out_bal = 0

\* A quote without the fee, rounded up instead of down.
calc_out_amount_rounded_up(in_amount, in_bal, out_bal) ==
    ((in_amount * out_bal) \div (in_bal + in_amount)) + 1

\* exact-in: the output bought by in_amount, floor
calc_out_amount(in_amount, in_bal, out_bal) ==
    LET in_eff == in_amount * (FeeDen - FeeNum)
    IN  (in_eff * out_bal) \div (in_bal * FeeDen + in_eff)

\* The exact-out quote without the trailing +1.
calc_in_amount_floor(out_amount, out_bal, in_bal) ==
    (in_bal * out_amount * FeeDen) \div ((out_bal - out_amount) * (FeeDen - FeeNum))

\* exact-out: the input that buys out_amount (< out_bal), floor plus one
calc_in_amount(out_amount, out_bal, in_bal) ==
    ((in_bal * out_amount * FeeDen) \div ((out_bal - out_amount) * (FeeDen - FeeNum))) + 1

\* --------------------------------------------------------------------- swaps
\* near -> token: the reserves after near_in came in and tokens_out went out
near_to_reserve(p, near_in, tokens_out) ==
    [p EXCEPT !.near_bal = @ + near_in, !.token_bal = @ - tokens_out]

\* token -> near: the reserves after tokens_in came in and near_out went out
reserve_to_near(p, tokens_in, near_out) ==
    [p EXCEPT !.token_bal = @ + tokens_in, !.near_bal = @ - near_out]

SwapDone(op, caller, token, p, near, tokens, lim, sent) ==
    /\ WithinBounds(p)
    /\ CanSchedule
    /\ pools' = set_pool(token, p)
    /\ promises' = Schedule(sent)
    /\ UNCHANGED held
    /\ last' = Call(op, caller, token, "ok", near, tokens, 0, lim, FALSE)
    /\ UNCHANGED <<owner, fee_dst, pool_keys>>

_swap_near_exact_in(op, token, near_paid, min_tokens, recipient) ==
    IF token \notin DOMAIN pools THEN Panic(op, recipient, token, "no pool")
    ELSE
        LET p == must_get_pool(token) IN
        IF depleted(p.near_bal, p.token_bal) THEN Panic(op, recipient, token, "E10")
        ELSE
            LET tokens_out == calc_out_amount(near_paid, p.near_bal, p.token_bal) IN
            IF tokens_out < min_tokens THEN Panic(op, recipient, token, "E7")
            ELSE SwapDone(op, recipient, token,
                          near_to_reserve(p, near_paid, tokens_out),
                          near_paid, tokens_out, min_tokens,
                          Transfers(token, NoAccount, 0, recipient, tokens_out))

_swap_near_exact_out(op, token, tokens_out, max_near, payer, recipient) ==
    IF token \notin DOMAIN pools THEN Panic(op, payer, token, "no pool")
    ELSE
        LET p == must_get_pool(token) IN
        IF depleted(p.near_bal, p.token_bal) \/ tokens_out >= p.token_bal THEN
            Panic(op, payer, token, "E10")
        ELSE
            LET near_in == calc_in_amount(tokens_out, p.token_bal, p.near_bal) IN
            IF near_in > max_near THEN Panic(op, payer, token, "E8")
            ELSE SwapDone(op, payer, token,
                          near_to_reserve(p, near_in, tokens_out),
                          near_in, tokens_out, max_near,
                          Transfers(token, payer, max_near - near_in,
                                    recipient, tokens_out))

\* Token-originating kernels price the swap, then only request the inbound
\* transfer_from; the reserves are committed by the completion callback.
SwapRequested(op, caller, r) ==
    /\ CanSchedule
    /\ promises' = Schedule(r)
    /\ UNCHANGED held
    /\ last' = Call(op, caller, r.token, "ok", 0, r.tokens, 0, r.lim, FALSE)
    /\ UNCHANGED contract

_swap_reserve_exact_in(op, token, tokens_paid, min_near, payer, recipient) ==
    IF token \notin DOMAIN pools THEN Panic(op, payer, token, "no pool")
    ELSE
        LET p == must_get_pool(token) IN
        IF depleted(p.token_bal, p.near_bal) THEN Panic(op, payer, token, "E10")
        ELSE IF calc_out_amount(tokens_paid, p.token_bal, p.near_bal) < min_near THEN
            Panic(op, payer, token, "E7")
        ELSE SwapRequested(op, payer,
                Promise("_swap_reserve_exact_in", token, NoAccount, payer, recipient,
                        0, NoAccount, tokens_paid, 0, min_near, 0))

_swap_reserve_exact_out(op, token, near_out, max_tokens, payer, recipient) ==
    IF token \notin DOMAIN pools THEN Panic(op, payer, token, "no pool")
    ELSE
        LET p == must_get_pool(token) IN
        IF depleted(p.token_bal, p.near_bal) \/ near_out >= p.near_bal THEN
            Panic(op, payer, token, "E10")
        ELSE
            LET tokens_in == calc_in_amount(near_out, p.near_bal, p.token_bal) IN
            IF tokens_in > max_tokens THEN Panic(op, payer, token, "E8")
            ELSE SwapRequested(op, payer,
                    Promise("_swap_reserve_exact_out", token, NoAccount, payer,
                            recipient, 0, NoAccount, tokens_in, 0, max_tokens, near_out))

\* two-hop quotes: <<near through the native leg, tokens at the far end>>
_price_swap_tokens_in(p1, p2, tokens_in) ==
    LET near_swap == calc_out_amount(tokens_in, p1.token_bal, p1.near_bal)
    IN  <<near_swap, calc_out_amount(near_swap, p2.near_bal, p2.token_bal)>>

_price_swap_tokens_out(p1, p2, tokens_out) ==
    LET near_swap == calc_in_amount(tokens_out, p2.token_bal, p2.near_bal)
    IN  <<near_swap, calc_in_amount(near_swap, p1.near_bal, p1.token_bal)>>

\* whether the exact-out two-hop quote exists: each leg must leave a reserve
tokens_out_depleted(p1, p2, tokens_out) ==
    \/ depleted(p1.token_bal, p1.near_bal)
    \/ depleted(p2.near_bal, p2.token_bal)
    \/ tokens_out >= p2.token_bal
    \/ calc_in_amount(tokens_out, p2.token_bal, p2.near_bal) >= p1.near_bal

_swap_tokens_exact_in(op, from, to, tokens_from, min_tokens_to, payer, recipient) ==
    IF from = to THEN Panic(op, payer, from, "E9")
    ELSE IF from \notin DOMAIN pools \/ to \notin DOMAIN pools THEN
        Panic(op, payer, from, "no pool")
    ELSE
        LET p1 == must_get_pool(from)
            p2 == must_get_pool(to)
        IN
        IF depleted(p1.token_bal, p1.near_bal) \/ depleted(p2.near_bal, p2.token_bal) THEN
            Panic(op, payer, from, "E10")
        ELSE IF _price_swap_tokens_in(p1, p2, tokens_from)[2] < min_tokens_to THEN
            Panic(op, payer, from, "E7")
        ELSE SwapRequested(op, payer,
                Promise("_swap_tokens_exact_in", from, to, payer, NoAccount, 0,
                        recipient, tokens_from, 0, min_tokens_to, 0))

_swap_tokens_exact_out(op, from, to, tokens_to, max_tokens_from, payer, recipient) ==
    IF from = to THEN Panic(op, payer, from, "E9")
    ELSE IF from \notin DOMAIN pools \/ to \notin DOMAIN pools THEN
        Panic(op, payer, from, "no pool")
    ELSE
        LET p1 == must_get_pool(from)
            p2 == must_get_pool(to)
        IN
        IF tokens_out_depleted(p1, p2, tokens_to) THEN Panic(op, payer, from, "E10")
        ELSE
            LET tokens_from == _price_swap_tokens_out(p1, p2, tokens_to)[2] IN
            IF tokens_from > max_tokens_from THEN Panic(op, payer, from, "E8")
            ELSE SwapRequested(op, payer,
                    Promise("_swap_tokens_exact_out", from, to, payer, NoAccount, 0,
                            recipient, tokens_from, 0, max_tokens_from, tokens_to))

\* The completion callback of a token-originating swap.  The contract now holds
\* r.tokens of the payer; the kernel prices them on the reserves as they are now,
\* holds the caller's bound again, commits the reserves and sends the output.
SwapCommitted(r, stored, near, tokens, sent) ==
    /\ \A t \in DOMAIN stored : WithinBounds(stored[t])
    /\ pools' = stored
    /\ promises' = Resolve(r) (+) SetToBag({sent})
    /\ last' = Call("swap_transfer_callback", r.from, r.token, "ok", near, tokens,
                    0, r.lim, FALSE)
    /\ UNCHANGED <<owner, fee_dst, pool_keys>>

SwapRejected(r, err) ==
    /\ promises' = Resolve(r)
    /\ last' = Failed(err)
    /\ UNCHANGED contract

commit_reserve_exact_in(r) ==
    LET p == must_get_pool(r.token)
        near_out == calc_out_amount(r.tokens, p.token_bal, p.near_bal)
    IN  IF depleted(p.token_bal, p.near_bal) THEN SwapRejected(r, "E10")
        ELSE IF near_out < r.lim THEN SwapRejected(r, "E7")
        ELSE SwapCommitted(r, set_pool(r.token, reserve_to_near(p, r.tokens, near_out)),
                           near_out, r.tokens,
                           Transfers(r.token, r.near_to, near_out, NoAccount, 0))

commit_reserve_exact_out(r) ==
    LET p == must_get_pool(r.token) IN
    IF depleted(p.token_bal, p.near_bal) \/ r.out >= p.near_bal THEN
        SwapRejected(r, "E10")
    ELSE IF calc_in_amount(r.out, p.near_bal, p.token_bal) > r.tokens THEN
        SwapRejected(r, "E8")
    ELSE SwapCommitted(r, set_pool(r.token, reserve_to_near(p, r.tokens, r.out)),
                       r.out, r.tokens,
                       Transfers(r.token, r.near_to, r.out, NoAccount, 0))

\* both legs of a two-hop swap: near_swap leaves pool `from` and enters pool `to`
two_hop(from, to, tokens_from, near_swap, tokens_to) ==
    [pools EXCEPT ![from] = reserve_to_near(@, tokens_from, near_swap),
                  ![to] = near_to_reserve(@, near_swap, tokens_to)]

commit_tokens_exact_in(r) ==
    LET p1 == must_get_pool(r.token)
        p2 == must_get_pool(r.token2)
        q == _price_swap_tokens_in(p1, p2, r.tokens)
    IN  IF depleted(p1.token_bal, p1.near_bal) \/ depleted(p2.near_bal, p2.token_bal) THEN
            SwapRejected(r, "E10")
        ELSE IF q[2] < r.lim THEN SwapRejected(r, "E7")
        ELSE SwapCommitted(r, two_hop(r.token, r.token2, r.tokens, q[1], q[2]),
                           q[1], q[2],
                           Transfers(r.token2, NoAccount, 0, r.token_to, q[2]))

commit_tokens_exact_out(r) ==
    LET p1 == must_get_pool(r.token)
        p2 == must_get_pool(r.token2)
        q == _price_swap_tokens_out(p1, p2, r.out)
    IN  IF tokens_out_depleted(p1, p2, r.out) THEN SwapRejected(r, "E10")
        ELSE IF q[2] > r.tokens THEN SwapRejected(r, "E8")
        ELSE SwapCommitted(r, two_hop(r.token, r.token2, r.tokens, q[1], r.out),
                           q[1], r.out,
                           Transfers(r.token2, NoAccount, 0, r.token_to, r.out))

SwapKinds == {"_swap_reserve_exact_in", "_swap_reserve_exact_out",
              "_swap_tokens_exact_in", "_swap_tokens_exact_out"}

\* A completion that commits whatever became of the inbound transfer.
swap_transfer_resolves_regardless(r, success) ==
    /\ r.kind \in SwapKinds
    /\ held' = IF success THEN tokens_received(r.token, r.tokens) ELSE held
    /\ IF r.kind = "_swap_reserve_exact_in" THEN commit_reserve_exact_in(r)
       ELSE IF r.kind = "_swap_reserve_exact_out" THEN commit_reserve_exact_out(r)
       ELSE IF r.kind = "_swap_tokens_exact_in" THEN commit_tokens_exact_in(r)
       ELSE commit_tokens_exact_out(r)

swap_transfer_resolves(r, success) ==
    /\ r.kind \in SwapKinds
    /\ held' = IF success THEN tokens_received(r.token, r.tokens) ELSE held
    /\ IF ~success THEN SwapRejected(r, "callback")
       ELSE IF r.kind = "_swap_reserve_exact_in" THEN commit_reserve_exact_in(r)
       ELSE IF r.kind = "_swap_reserve_exact_out" THEN commit_reserve_exact_out(r)
       ELSE IF r.kind = "_swap_tokens_exact_in" THEN commit_tokens_exact_in(r)
       ELSE commit_tokens_exact_out(r)

\* ------------------------------------------------------ swap entry points
\* lib.rs 315-483: each passes the attached deposit and the predecessor on.
swap_near_to_reserve_exact_in(caller, token, attached_deposit, min_tokens) ==
    _swap_near_exact_in("swap_near_to_reserve_exact_in", token, attached_deposit,
                        min_tokens, caller)

\* The _xfr entry point sending the tokens bought to the caller instead.
swap_near_to_reserve_exact_in_xfr_to_caller(caller, token, attached_deposit, min_tokens, recipient) ==
    _swap_near_exact_in("swap_near_to_reserve_exact_in_xfr", token, attached_deposit,
                        min_tokens, caller)

swap_near_to_reserve_exact_in_xfr(caller, token, attached_deposit, min_tokens, recipient) ==
    _swap_near_exact_in("swap_near_to_reserve_exact_in_xfr", token, attached_deposit,
                        min_tokens, recipient)

swap_near_to_reserve_exact_out(caller, token, attached_deposit, tokens_out) ==
    _swap_near_exact_out("swap_near_to_reserve_exact_out", token, tokens_out,
                         attached_deposit, caller, caller)

\* The _xfr entry point with payer and recipient crossed.
swap_near_to_reserve_exact_out_xfr_crossed(caller, token, attached_deposit, tokens_out, recipient) ==
    _swap_near_exact_out("swap_near_to_reserve_exact_out_xfr", token, tokens_out,
                         attached_deposit, recipient, caller)

swap_near_to_reserve_exact_out_xfr(caller, token, attached_deposit, tokens_out, recipient) ==
    _swap_near_exact_out("swap_near_to_reserve_exact_out_xfr", token, tokens_out,
                         attached_deposit, caller, recipient)

swap_reserve_to_near_exact_in(caller, token, tokens_paid, min_near) ==
    _swap_reserve_exact_in("swap_reserve_to_near_exact_in", token, tokens_paid,
                           min_near, caller, caller)

swap_reserve_to_near_exact_in_xfr(caller, token, tokens_paid, min_near, recipient) ==
    _swap_reserve_exact_in("swap_reserve_to_near_exact_in_xfr", token, tokens_paid,
                           min_near, caller, recipient)

swap_reserve_to_near_exact_out(caller, token, near_out, max_tokens) ==
    _swap_reserve_exact_out("swap_reserve_to_near_exact_out", token, near_out,
                            max_tokens, caller, caller)

swap_reserve_to_near_exact_out_xfr(caller, token, near_out, max_tokens, recipient) ==
    _swap_reserve_exact_out("swap_reserve_to_near_exact_out_xfr", token, near_out,
                            max_tokens, caller, recipient)

\* The entry point with the two pools crossed.
swap_tokens_exact_in_reversed(caller, from, to, tokens_from, min_tokens_to) ==
    _swap_tokens_exact_in("swap_tokens_exact_in", to, from, tokens_from,
                          min_tokens_to, caller, caller)

swap_tokens_exact_in(caller, from, to, tokens_from, min_tokens_to) ==
    _swap_tokens_exact_in("swap_tokens_exact_in", from, to, tokens_from,
                          min_tokens_to, caller, caller)

swap_tokens_exact_in_xfr(caller, from, to, tokens_from, min_tokens_to, recipient) ==
    _swap_tokens_exact_in("swap_tokens_exact_in_xfr", from, to, tokens_from,
                          min_tokens_to, caller, recipient)

swap_tokens_exact_out(caller, from, to, tokens_to, max_tokens_from) ==
    _swap_tokens_exact_out("swap_tokens_exact_out", from, to, tokens_to,
                           max_tokens_from, caller, caller)

swap_tokens_exact_out_xfr(caller, from, to, tokens_to, max_tokens_from, recipient) ==
    _swap_tokens_exact_out("swap_tokens_exact_out_xfr", from, to, tokens_to,
                           max_tokens_from, caller, recipient)

\* ------------------------------------------------------------ price views
\* lib.rs 487-543: the amount must be positive, the pool must exist, the quote is
\* the pricing kernel's, which refuses a depleted pool (E10).
Quoted(op, token, asked, near, tokens) ==
    /\ last' = Call(op, NoAccount, token, "ok", near, tokens, 0, asked, FALSE)
    /\ UNCHANGED <<contract, promises, held>>

\* The view quoting whatever the formula gives, also on a pool without reserves.
price_near_to_token_in_unguarded(token, near_in) ==
    IF ~(near_in > 0) THEN Panic("price_near_to_token_in", NoAccount, token, "E2")
    ELSE IF token \notin DOMAIN pools THEN
        Panic("price_near_to_token_in", NoAccount, token, "no pool")
    ELSE
        LET p == must_get_pool(token) IN
        Quoted("price_near_to_token_in", token, near_in, 0,
               calc_out_amount(near_in, p.near_bal, p.token_bal))

price_near_to_token_in(token, near_in) ==
    IF ~(near_in > 0) THEN Panic("price_near_to_token_in", NoAccount, token, "E2")
    ELSE IF token \notin DOMAIN pools THEN
        Panic("price_near_to_token_in", NoAccount, token, "no pool")
    ELSE
        LET p == must_get_pool(token) IN
        IF depleted(p.near_bal, p.token_bal) THEN
            Panic("price_near_to_token_in", NoAccount, token, "E10")
        ELSE Quoted("price_near_to_token_in", token, near_in, 0,
                    calc_out_amount(near_in, p.near_bal, p.token_bal))

price_near_to_token_out(token, tokens_out) ==
    IF ~(tokens_out > 0) THEN Panic("price_near_to_token_out", NoAccount, token, "E2")
    ELSE IF token \notin DOMAIN pools THEN
        Panic("price_near_to_token_out", NoAccount, token, "no pool")
    ELSE
        LET p == must_get_pool(token) IN
        IF depleted(p.near_bal, p.token_bal) \/ tokens_out >= p.token_bal THEN
            Panic("price_near_to_token_out", NoAccount, token, "E10")
        ELSE Quoted("price_near_to_token_out", token, tokens_out,
                    calc_in_amount(tokens_out, p.token_bal, p.near_bal), 0)

\* A view that stores the swap it quotes.
price_token_to_near_in_committing(token, tokens_in) ==
    IF ~(tokens_in > 0) THEN Panic("price_token_to_near_in", NoAccount, token, "E2")
    ELSE IF token \notin DOMAIN pools THEN
        Panic("price_token_to_near_in", NoAccount, token, "no pool")
    ELSE
        LET p == must_get_pool(token)
            near_out == calc_out_amount(tokens_in, p.token_bal, p.near_bal)
        IN
        IF depleted(p.token_bal, p.near_bal) THEN
            Panic("price_token_to_near_in", NoAccount, token, "E10")
        ELSE
            /\ pools' = set_pool(token, reserve_to_near(p, tokens_in, near_out))
            /\ last' = Call("price_token_to_near_in", NoAccount, token, "ok",
                            near_out, 0, 0, tokens_in, FALSE)
            /\ UNCHANGED <<owner, fee_dst, pool_keys, promises, held>>

price_token_to_near_in(token, tokens_in) ==
    IF ~(tokens_in > 0) THEN Panic("price_token_to_near_in", NoAccount, token, "E2")
    ELSE IF token \notin DOMAIN pools THEN
        Panic("price_token_to_near_in", NoAccount, token, "no pool")
    ELSE
        LET p == must_get_pool(token) IN
        IF depleted(p.token_bal, p.near_bal) THEN
            Panic("price_token_to_near_in", NoAccount, token, "E10")
        ELSE Quoted("price_token_to_near_in", token, tokens_in,
                    calc_out_amount(tokens_in, p.token_bal, p.near_bal), 0)

price_token_to_near_out(token, near_out) ==
    IF ~(near_out > 0) THEN Panic("price_token_to_near_out", NoAccount, token, "E2")
    ELSE IF token \notin DOMAIN pools THEN
        Panic("price_token_to_near_out", NoAccount, token, "no pool")
    ELSE
        LET p == must_get_pool(token) IN
        IF depleted(p.token_bal, p.near_bal) \/ near_out >= p.near_bal THEN
            Panic("price_token_to_near_out", NoAccount, token, "E10")
        ELSE Quoted("price_token_to_near_out", token, near_out, 0,
                    calc_in_amount(near_out, p.near_bal, p.token_bal))

price_token_to_token_in(from, to, tokens_in) ==
    IF ~(tokens_in > 0) THEN Panic("price_token_to_token_in", NoAccount, from, "E2")
    ELSE IF from \notin DOMAIN pools \/ to \notin DOMAIN pools THEN
        Panic("price_token_to_token_in", NoAccount, from, "no pool")
    ELSE
        LET p1 == must_get_pool(from)
            p2 == must_get_pool(to)
        IN
        IF depleted(p1.token_bal, p1.near_bal) \/ depleted(p2.near_bal, p2.token_bal) THEN
            Panic("price_token_to_token_in", NoAccount, from, "E10")
        ELSE Quoted("price_token_to_token_in", from, tokens_in, 0,
                    _price_swap_tokens_in(p1, p2, tokens_in)[2])

price_token_to_token_out(from, to, tokens_out) ==
    IF ~(tokens_out > 0) THEN Panic("price_token_to_token_out", NoAccount, from, "E2")
    ELSE IF from \notin DOMAIN pools \/ to \notin DOMAIN pools THEN
        Panic("price_token_to_token_out", NoAccount, from, "no pool")
    ELSE
        LET p1 == must_get_pool(from)
            p2 == must_get_pool(to)
        IN
        IF tokens_out_depleted(p1, p2, tokens_out) THEN
            Panic("price_token_to_token_out", NoAccount, from, "E10")
        ELSE Quoted("price_token_to_token_out", from, tokens_out, 0,
                    _price_swap_tokens_out(p1, p2, tokens_out)[2])

Init ==
    /\ owner = "owner_near"
    /\ fee_dst = owner
    /\ pool_keys = <<>>
    /\ pools = <<>>
    /\ promises = EmptyBag
    /\ last = Call("new", owner, NoAccount, "ok", 0, 0, 0, 0, FALSE)
    /\ held = <<>>

\* ------------------------------------------------------------- read views
\* lib.rs 155-166, 303-305: methods on `&self`; each returns what it read.
Viewed(op, token, near, tokens, shares, count) ==
    /\ last' = Call(op, NoAccount, token, "ok", near, tokens, shares, count, FALSE)
    /\ UNCHANGED <<contract, promises, held>>

pool_info_called(token) ==
    LET info == pool_info(token) IN
    IF info = <<>> THEN Viewed("pool_info", token, 0, 0, 0, 0)
    ELSE Viewed("pool_info", token, info[1], info[2], info[3], 1)

list_pools_called == Viewed("list_pools", NoAccount, 0, 0, 0, Len(list_pools))

shares_balance_of_called(token, account) ==
    IF token \notin DOMAIN pools THEN
        Panic("shares_balance_of", NoAccount, token, "no pool")
    ELSE Viewed("shares_balance_of", token, 0, 0, shares_balance_of(token, account), 0)

\* ------------------------------------------------------------ next states
\* the amount paid in or asked for by a swap: the smallest, and the largest
Paid == {1, MaxAmt}
\* <<min_near, min_tokens>> of a withdrawal: one of them zero, both met by any
\* payout, both out of reach of a small one
Floors == {<<0, 1>>, <<1, 0>>, <<1, 1>>, <<MaxAmt, MaxAmt>>}

\* min_shares of a deposit: no demand, and one only a full pool meets
Wanted == {0, MaxBal}
\* the bound of a swap: the smallest, and the largest a caller passes
Limits == {1, MaxAmt}

Registry ==
    \/ \E c \in Users, a \in Users \cup {InvalidAccount} : set_fee_dst(c, a)
    \/ \E c \in Users, a \in Users \cup {InvalidAccount} : change_owner(c, a)

Pools ==
    \E c \in Users, t \in Tokens : create_pool(c, t)

Deposits(C, T, N, S) ==
    \/ \E c \in C, t \in T, n \in N, m \in N, s \in S :
            add_liquidity(c, t, n, m, s)
    \/ \E r \in InFlight, ok \in BOOLEAN : add_liquidity_transfer_resolves(r, ok)
    \/ \E c \in C, t \in T : add_liquidity_transfer_callback_called(c, t)

Withdrawals(T) ==
    \/ \E c \in Users, t \in T, s \in Shares, b \in Floors :
            withdraw_liquidity(c, t, s, b[1], b[2])
    \/ \E r \in InFlight, ok \in BOOLEAN : transfers_resolve(r, ok)

\* P, L: the amounts and the bounds the callers in C pass; the _xfr entry points
\* are the same kernels, called for a recipient in X with what the caller pays,
\* or at most pays, from PX and what it asks for, or at least asks for, from LX.
Swaps(C, P, L, X, PX, LX) ==
    \/ \E c \in C, t \in Tokens, d \in P, m \in L :
            swap_near_to_reserve_exact_in(c, t, d, m)
    \/ \E c \in C, t \in Tokens, d \in PX, m \in LX, x \in X :
            swap_near_to_reserve_exact_in_xfr(c, t, d, m, x)
    \/ \E c \in C, t \in Tokens, d \in L, n \in P :
            swap_near_to_reserve_exact_out(c, t, d, n)
    \/ \E c \in C, t \in Tokens, d \in PX, n \in LX, x \in X :
            swap_near_to_reserve_exact_out_xfr(c, t, d, n, x)
    \/ \E c \in C, t \in Tokens, n \in P, m \in L :
            swap_reserve_to_near_exact_in(c, t, n, m)
    \/ \E c \in C, t \in Tokens, n \in PX, m \in LX, x \in X :
            swap_reserve_to_near_exact_in_xfr(c, t, n, m, x)
    \/ \E c \in C, t \in Tokens, n \in P, m \in L :
            swap_reserve_to_near_exact_out(c, t, n, m)
    \/ \E c \in C, t \in Tokens, n \in LX, m \in PX, x \in X :
            swap_reserve_to_near_exact_out_xfr(c, t, n, m, x)
    \/ \E c \in C, f \in Tokens, t \in Tokens, n \in P, m \in L :
            swap_tokens_exact_in(c, f, t, n, m)
    \/ \E c \in C, f \in Tokens, t \in Tokens, n \in PX, m \in LX, x \in X :
            swap_tokens_exact_in_xfr(c, f, t, n, m, x)
    \/ \E c \in C, f \in Tokens, t \in Tokens, n \in P, m \in L :
            swap_tokens_exact_out(c, f, t, n, m)
    \/ \E c \in C, f \in Tokens, t \in Tokens, n \in LX, m \in PX, x \in X :
            swap_tokens_exact_out_xfr(c, f, t, n, m, x)
    \/ \E r \in InFlight, ok \in BOOLEAN : swap_transfer_resolves(r, ok)

\* Every entry point, on every pool.
Next == Registry \/ Pools \/ Deposits(Users, Tokens, Amounts, Wanted) \/ Withdrawals(Tokens)
            \/ Swaps(Users, Paid, Limits, Users, Paid, Limits)

Spec == Init /\ [][Next]_vars

\* The registry: administration and pool creation, with deposits so that pools
\* are found in more than their fresh state.
NextRegistry == Registry \/ Pools \/ Deposits({"pre_near"}, {"token1_near"}, Amounts, Wanted)
SpecRegistry == Init /\ [][NextRegistry]_vars

\* The liquidity engine on one pool, beside a pool that is created and never funded.
NextLiquidity == Pools \/ Deposits(Users, {"token1_near"}, Amounts, Wanted) \/ Withdrawals({"token1_near"})
SpecLiquidity == Init /\ [][NextLiquidity]_vars

\* The swap engine.  One provider creates and seeds each pool once; one trader
\* swaps, for itself and, through the _xfr entry points, for the provider.
Seeding ==
    \/ \E t \in Tokens : t \notin DOMAIN pools /\ create_pool("owner_near", t)
    \/ \E t \in DOMAIN pools :
          /\ pools[t].total_shares = 0
          /\ add_liquidity("owner_near", t, MaxAmt, MaxAmt, 0)
    \/ \E r \in InFlight, ok \in BOOLEAN : add_liquidity_transfer_resolves(r, ok)
    \/ \E r \in InFlight, ok \in BOOLEAN : transfers_resolve(r, ok)

NextSwap == Seeding \/ Swaps({"pre_near"}, Paid, Limits, {"owner_near"}, {MaxAmt}, {1})
SpecSwap == Init /\ [][NextSwap]_vars

\* The price views, and every swap that meets a pool without reserves, on pools
\* found as created or as their first deposit left them, whatever it was.
Reserves == 1..MaxBal

Founded(n, m) == first_deposit(Pool_new, "owner_near", n, m)

InitPricing ==
    /\ owner = "owner_near"
    /\ fee_dst = owner
    /\ pool_keys = <<"token1_near", "token2_near">>
    /\ pools \in [Tokens -> {Pool_new} \cup {Founded(n, m) : n \in Reserves, m \in Reserves}]
    /\ promises = EmptyBag
    /\ held = <<>>
    /\ last = LET p == pools["token2_near"]
              IN  IF p.total_shares = 0
                  THEN Returned("create_pool", "owner_near", "token2_near")
                  ELSE Call("add_liquidity_transfer_callback", "owner_near",
                            "token2_near", "ok", p.near_bal, p.token_bal,
                            p.total_shares, 0, FALSE)

Prices ==
    \/ \E t \in Tokens, n \in Amounts : price_near_to_token_in(t, n)
    \/ \E t \in Tokens, n \in Amounts : price_near_to_token_out(t, n)
    \/ \E t \in Tokens, n \in Amounts : price_token_to_near_in(t, n)
    \/ \E t \in Tokens, n \in Amounts : price_token_to_near_out(t, n)
    \/ \E f \in Tokens, t \in Tokens, n \in Amounts : price_token_to_token_in(f, t, n)
    \/ \E f \in Tokens, t \in Tokens, n \in Amounts : price_token_to_token_out(f, t, n)

\* the swaps of a trader while one of the pools has no reserves
DepletedSwaps ==
    /\ \E t \in DOMAIN pools : depleted(pools[t].near_bal, pools[t].token_bal)
    /\ Swaps({"pre_near"}, {MaxAmt}, {1}, {"owner_near"}, {MaxAmt}, {1})

NextPricing == Prices \/ DepletedSwaps
SpecPricing == InitPricing /\ [][NextPricing]_vars

\* Both engines on the same pools: the provider seeds each pool, then deposits
\* again into the first and redeems its shares of it in parts, while the trader
\* pays the largest amount, or asks for the smallest, through each kernel.
Redeemed == {1, MaxAmt}

Providing ==
    \/ add_liquidity("owner_near", "token1_near", 1, MaxAmt, 0)
    \/ \E s \in Redeemed : withdraw_liquidity("owner_near", "token1_near", s, 1, 1)

Trading ==
    \/ \E t \in Tokens : swap_near_to_reserve_exact_in("pre_near", t, MaxAmt, 1)
    \/ \E t \in Tokens : swap_near_to_reserve_exact_out("pre_near", t, MaxAmt, 1)
    \/ \E t \in Tokens : swap_reserve_to_near_exact_in("pre_near", t, MaxAmt, 1)
    \/ \E t \in Tokens : swap_reserve_to_near_exact_out("pre_near", t, 1, MaxAmt)
    \/ \E f \in Tokens, t \in Tokens : swap_tokens_exact_in("pre_near", f, t, MaxAmt, 1)
    \/ \E f \in Tokens, t \in Tokens : swap_tokens_exact_out("pre_near", f, t, 1, MaxAmt)
    \/ \E r \in InFlight, ok \in BOOLEAN : swap_transfer_resolves(r, ok)

NextReserves == Seeding \/ Providing \/ Trading
SpecReserves == Init /\ [][NextReserves]_vars

\* Deposits alone, with every demand for shares a small pool can or cannot meet.
MinShares == 0..MaxAmt

NextDeposit == Pools \/ Deposits(Users, {"token1_near"}, Amounts, MinShares)
SpecDeposit == Init /\ [][NextDeposit]_vars

\* The arithmetic of deposits and withdrawals on a pool found with reserves as
\* small as a caller's amount or as large as a Balance gets.
WideReserves == {MaxAmt, BalanceMax}

InitArith ==
    /\ owner = "owner_near"
    /\ fee_dst = owner
    /\ pool_keys = <<"token1_near">>
    /\ pools \in [{"token1_near"} -> {Founded(n, m) : n \in WideReserves, m \in WideReserves}]
    /\ promises = EmptyBag
    /\ held = <<>>
    /\ last = LET p == pools["token1_near"]
              IN  Call("add_liquidity_transfer_callback", "owner_near", "token1_near",
                       "ok", p.near_bal, p.token_bal, p.total_shares, 0, FALSE)

NextArith == Deposits(Users, {"token1_near"}, Amounts, {0}) \/ Withdrawals({"token1_near"})
SpecArith == InitArith /\ [][NextArith]_vars

\* The liquidity engine on one pool, with account kept of the tokens of that pool
\* the contract holds: none when it is deployed.
InitSolvency ==
    /\ owner = "owner_near"
    /\ fee_dst = owner
    /\ pool_keys = <<>>
    /\ pools = <<>>
    /\ promises = EmptyBag
    /\ last = Call("new", owner, NoAccount, "ok", 0, 0, 0, 0, FALSE)
    /\ held = [t \in {"token1_near"} |-> 0]

SpecSolvency == InitSolvency /\ [][NextLiquidity]_vars

\* ------------------------------------------------------------------ claims
Range(q) == {q[i] : i \in DOMAIN q}

\* the entry points of the swap engine, and the completion of a token-originating swap
SwapOps == {"swap_near_to_reserve_exact_in", "swap_near_to_reserve_exact_in_xfr",
            "swap_near_to_reserve_exact_out", "swap_near_to_reserve_exact_out_xfr",
            "swap_reserve_to_near_exact_in", "swap_reserve_to_near_exact_in_xfr",
            "swap_reserve_to_near_exact_out", "swap_reserve_to_near_exact_out_xfr",
            "swap_tokens_exact_in", "swap_tokens_exact_in_xfr",
            "swap_tokens_exact_out", "swap_tokens_exact_out_xfr",
            "swap_transfer_callback"}

product(p) == p.near_bal * p.token_bal

\* C1: in every reachable state, for every pool, the share balances of all
\* accounts add up to the pool's total_shares.
C1_ShareSum ==
    \A t \in DOMAIN pools : Sum(pools[t].shares) = pools[t].total_shares

\* C2: a deposit into a pool that already has shares mints
\* floor(near_in * total_shares / near_bal), from the pool as it was before the
\* deposit, and adds exactly that to the caller's shares and to total_shares.
C2_SubsequentDepositMints ==
    [][(last'.op = "add_liquidity" /\ last'.err = "ok" /\ ~last'.first) =>
        LET t == last'.token
            c == last'.caller
            p == pools[t]
            minted == (last'.near * p.total_shares) \div p.near_bal
        IN  /\ last'.shares = minted
            /\ pools'[t].total_shares = p.total_shares + minted
            /\ pools'[t].shares[c] = p.shares[c] + minted]_vars

\* C3: an account whose deposit of dn near and dt tokens into a seeded pool has
\* just been closed, and which then withdraws exactly the shares that deposit
\* minted, is paid at most dn near and at most dt tokens.
C3_RoundTrip ==
    [][(/\ last.op = "add_liquidity_transfer_callback" /\ last.err = "ok"
        /\ pools[last.token].total_shares > last.shares
        /\ last'.op = "withdraw_liquidity" /\ last'.err = "ok"
        /\ last'.caller = last.caller /\ last'.token = last.token
        /\ last'.shares = last.shares)
       => (last'.near <= last.near /\ last'.tokens <= last.tokens)]_vars

\* C4: a swap that succeeds leaves the product near_bal * token_bal of every pool
\* at least what it was.
C4_ProductGrows ==
    [][(last'.err = "ok" /\ last'.op \in SwapOps) =>
        \A t \in DOMAIN pools : product(pools'[t]) >= product(pools[t])]_vars

C4_Witness ==
    /\ last.op = "swap_transfer_callback" /\ last.err = "ok"
    /\ DOMAIN pools = Tokens
    /\ \E f \in Tokens, t \in Tokens :
          /\ pools[f].token_bal > MaxAmt /\ pools[f].near_bal < MaxAmt
          /\ pools[t].near_bal > MaxAmt /\ pools[t].token_bal < MaxAmt
          /\ product(pools[f]) > MaxAmt * MaxAmt

\* C5: when the transfer_from of a deposit fails, the callback leaves the pool's
\* near_bal, token_bal, total_shares and the depositor's shares where they were
\* before the deposit.
C5_FailedDepositRolledBack ==
    [][\A r \in InFlight :
        (r.kind = "add_liquidity" /\ promises' = Resolve(r) /\ last'.err = "callback") =>
            LET p == pools[r.token]
                q == pools'[r.token]
            IN  /\ PoolInfo(q) = <<p.near_bal - r.near, p.token_bal - r.tokens,
                                   p.total_shares - r.shares>>
                /\ q.shares[r.from] = p.shares[r.from] - r.shares]_vars

\* C6: change_owner and set_fee_dst succeed only for the current owner; called by
\* anyone else they fail and change neither owner, fee_dst nor any pool; a
\* change_owner that succeeds makes its argument the owner, to whom the same
\* rule then applies.
C6_OwnershipAuthority ==
    [][\A c \in Users, a \in Users \cup {InvalidAccount} :
        /\ (change_owner(c, a) \/ set_fee_dst(c, a)) =>
              IF c = owner THEN last'.err = "ok" \/ UNCHANGED contract
              ELSE last'.err # "ok" /\ UNCHANGED contract
        /\ (change_owner(c, a) /\ last'.err = "ok") =>
              (owner' = a /\ UNCHANGED <<fee_dst, pool_keys, pools>>)
        /\ (set_fee_dst(c, a) /\ last'.err = "ok") =>
              (fee_dst' = a /\ UNCHANGED <<owner, pool_keys, pools>>)]_vars

\* the first owner handed the contract over, then was refused
C6_Witness ==
    /\ owner = "pre_near"
    /\ last.err = "Only the owner can call this function"

\* C7: create_pool for a token that has a pool fails with E1 and leaves every
\* pool and the list of pools as they were, whatever the pool holds.
C7_DoubleCreateFails ==
    [][\A c \in Users, t \in DOMAIN pools :
        create_pool(c, t) =>
            (last'.err = "E1" /\ pools' = pools /\ list_pools' = list_pools)]_vars

\* the only pool there is holds a deposit, and creating it again was refused
C7_Witness ==
    /\ last.err = "E1"
    /\ DOMAIN pools = {"token1_near"}
    /\ pools["token1_near"].total_shares > 0

\* C8: create_pool for a token without a pool succeeds whoever calls; the new
\* pool reads (0, 0, 0), the pools of other tokens are untouched, and list_pools
\* is the tokens create_pool has succeeded for: it grows by that token, and no
\* other step changes it.
C8_CreatePool ==
    [][/\ \A c \in Users, t \in Tokens \ DOMAIN pools :
            create_pool(c, t) =>
                /\ last'.err = "ok"
                /\ PoolInfo(pools'[t]) = <<0, 0, 0>>
                /\ list_pools' = Append(list_pools, t)
                /\ \A u \in DOMAIN pools : pools'[u] = pools[u]
       /\ ~(last'.op = "create_pool" /\ last'.err = "ok") => list_pools' = list_pools
       /\ Range(list_pools') = DOMAIN pools']_vars

\* an account that is not the owner created the second pool, beside a funded one
C8_Witness ==
    /\ last.op = "create_pool" /\ last.err = "ok"
    /\ last.caller # owner
    /\ Len(list_pools) = 2
    /\ pool_info(last.token) = <<0, 0, 0>>
    /\ \E u \in DOMAIN pools : pools[u].total_shares > 0

\* C9: the first deposit into a pool (total_shares = 0), with near and tokens both
\* positive, makes the pool (near_in, max_token_amount, near_in) and the caller's
\* shares near_in, whatever min_shares asks for.
C9_FirstDeposit ==
    [][\A c \in Users, t \in DOMAIN pools, n \in 1..MaxAmt, m \in 1..MaxAmt, s \in Wanted :
        (pools[t].total_shares = 0 /\ add_liquidity(c, t, n, m, s)) =>
            /\ last'.err = "ok"
            /\ PoolInfo(pools'[t]) = <<n, m, n>>
            /\ pools'[t].shares[c] = n]_vars

\* a first deposit went through although it minted less than min_shares
C9_Witness ==
    /\ last.op = "add_liquidity" /\ last.err = "ok" /\ last.first
    /\ last.lim > last.shares
    /\ last.tokens # last.near
    /\ PoolInfo(pools[last.token]) = <<last.near, last.tokens, last.near>>

\* C10: a withdraw_liquidity that succeeds pays floor(shares * near_bal /
\* total_shares) near and floor(shares * token_bal / total_shares) tokens to the
\* caller, takes shares off the caller's balance and off total_shares, the near
\* and the tokens paid off near_bal and token_bal, and touches no other balance.
C10_Withdraw ==
    [][(last'.op = "withdraw_liquidity" /\ last'.err = "ok") =>
        LET t == last'.token
            c == last'.caller
            p == pools[t]
            near_out == (last'.shares * p.near_bal) \div p.total_shares
            token_out == (last'.shares * p.token_bal) \div p.total_shares
        IN  /\ promises' = Schedule(Transfers(t, c, near_out, c, token_out))
            /\ pools'[t] = [near_bal |-> p.near_bal - near_out,
                            token_bal |-> p.token_bal - token_out,
                            total_shares |-> p.total_shares - last'.shares,
                            shares |-> [p.shares EXCEPT ![c] = @ - last'.shares]]]_vars

\* C11: withdraw_liquidity fails with E2 when shares, min_near or min_tokens is
\* zero, with E5 when the caller holds fewer shares than it redeems, with E6 when
\* floor(shares * near_bal / total_shares) < min_near or
\* floor(shares * token_bal / total_shares) < min_tokens; a call that fails
\* changes no pool and no share balance and schedules no transfer.
withdraw_liquidity_refusal(p, c, s, min_near, min_tokens) ==
    IF s = 0 \/ min_near = 0 \/ min_tokens = 0 THEN "E2"
    ELSE IF p.shares[c] < s THEN "E5"
    ELSE IF (s * p.near_bal) \div p.total_shares < min_near
            \/ (s * p.token_bal) \div p.total_shares < min_tokens THEN "E6"
    ELSE "ok"

C11_WithdrawRefusals ==
    \A c \in Users, t \in DOMAIN pools, s \in Shares, b \in Floors :
        LET e == withdraw_liquidity_refusal(pools[t], c, s, b[1], b[2])
        IN  /\ e # "ok" => ENABLED withdraw_liquidity(c, t, s, b[1], b[2])
            /\ ~ENABLED (/\ withdraw_liquidity(c, t, s, b[1], b[2])
                         /\ ~(/\ last'.err = e
                              /\ e # "ok" => UNCHANGED <<contract, promises>>))

\* a holder of shares asked for more near and tokens than its shares redeem
C11_Witness ==
    /\ last.err = "E6"
    /\ \E t \in DOMAIN pools, c \in Users :
          /\ pools[t].shares[c] > 0
          /\ promises = EmptyBag

\* C12: a near -> token exact-in swap of amount_in on reserves (near_bal,
\* token_bal) buys out = floor(amount_in * 997 * token_bal / (near_bal * 1000 +
\* amount_in * 997)); with out < min_out it fails (E7) and changes nothing;
\* otherwise near_bal grows by amount_in, token_bal shrinks by out, and out
\* tokens are sent to the recipient.
near_exact_in_out(p, amount_in) ==
    (amount_in * 997 * p.token_bal) \div (p.near_bal * 1000 + amount_in * 997)

near_exact_in_settled(t, amount_in, min_out, recipient) ==
    LET out == near_exact_in_out(pools[t], amount_in)
    IN  IF out < min_out THEN
            last'.err = "E7" /\ UNCHANGED <<contract, promises>>
        ELSE
            /\ last'.err = "ok"
            /\ pools' = [pools EXCEPT ![t].near_bal = @ + amount_in,
                                      ![t].token_bal = @ - out]
            /\ promises' = promises (+) SetToBag({Transfers(t, NoAccount, 0, recipient, out)})
            /\ UNCHANGED <<owner, fee_dst, pool_keys>>

C12_NearExactIn ==
    \A c \in Users, x \in Users, t \in DOMAIN pools, d \in Paid, m \in Limits :
        (pools[t].near_bal > 0 /\ pools[t].token_bal > 0) =>
            /\ ~ENABLED (/\ swap_near_to_reserve_exact_in(c, t, d, m)
                         /\ ~near_exact_in_settled(t, d, m, c))
            /\ ~ENABLED (/\ swap_near_to_reserve_exact_in_xfr(c, t, d, m, x)
                         /\ ~near_exact_in_settled(t, d, m, x))
            /\ near_exact_in_out(pools[t], d) < m =>
                  /\ ENABLED swap_near_to_reserve_exact_in(c, t, d, m)
                  /\ ENABLED swap_near_to_reserve_exact_in_xfr(c, t, d, m, x)

\* near was swapped for tokens, and the tokens are on their way to someone else
C12_Witness ==
    /\ last.op = "swap_near_to_reserve_exact_in_xfr" /\ last.err = "ok"
    /\ last.tokens > 0
    /\ Transfers(last.token, NoAccount, 0, "owner_near", last.tokens) \in InFlight

\* C13: a near -> token exact-out swap for amount_out, with max_in attached, costs
\* in = floor(near_bal * amount_out * 1000 / ((token_bal - amount_out) * 997)) + 1;
\* with in > max_in it fails (E8) and changes nothing; otherwise near_bal grows by
\* in, not by max_in, token_bal shrinks by amount_out, amount_out tokens go to the
\* recipient and max_in - in near goes back to the payer.
near_exact_out_in(p, amount_out) ==
    ((p.near_bal * amount_out * 1000) \div ((p.token_bal - amount_out) * 997)) + 1

near_exact_out_settled(t, amount_out, max_in, payer, recipient) ==
    LET in == near_exact_out_in(pools[t], amount_out)
    IN  IF in > max_in THEN
            last'.err = "E8" /\ UNCHANGED <<contract, promises>>
        ELSE
            /\ last'.err = "ok"
            /\ pools' = [pools EXCEPT ![t].near_bal = @ + in,
                                      ![t].token_bal = @ - amount_out]
            /\ promises' = promises (+) SetToBag({Transfers(t, payer, max_in - in,
                                                            recipient, amount_out)})
            /\ UNCHANGED <<owner, fee_dst, pool_keys>>

C13_NearExactOut ==
    \A c \in Users, x \in Users, t \in DOMAIN pools, d \in Limits, n \in Paid :
        (pools[t].near_bal > 0 /\ pools[t].token_bal > n) =>
            /\ ~ENABLED (/\ swap_near_to_reserve_exact_out(c, t, d, n)
                         /\ ~near_exact_out_settled(t, n, d, c, c))
            /\ ~ENABLED (/\ swap_near_to_reserve_exact_out_xfr(c, t, d, n, x)
                         /\ ~near_exact_out_settled(t, n, d, c, x))
            /\ near_exact_out_in(pools[t], n) > d =>
                  /\ ENABLED swap_near_to_reserve_exact_out(c, t, d, n)
                  /\ ENABLED swap_near_to_reserve_exact_out_xfr(c, t, d, n, x)

\* tokens were bought for someone else for less near than was attached, and the
\* rest is on its way back to the payer
C13_Witness ==
    /\ last.op = "swap_near_to_reserve_exact_out_xfr" /\ last.err = "ok"
    /\ last.near < last.lim
    /\ Transfers(last.token, "pre_near", last.lim - last.near, "owner_near", last.tokens)
            \in InFlight

\* C14: for positive reserves R_in, R_out and every y with 0 < y < R_out, paying
\* the exact-out quote for y as an exact-in swap buys at least y:
\* calc_out_amount(calc_in_amount(y, R_out, R_in), R_in, R_out) >= y.
quote_covers(R_in, R_out) ==
    \A y \in 1..(R_out - 1) :
        calc_out_amount(calc_in_amount(y, R_out, R_in), R_in, R_out) >= y

C14_ExactOutConsistent ==
    \A t \in DOMAIN pools :
        (pools[t].near_bal > 0 /\ pools[t].token_bal > 0) =>
            /\ quote_covers(pools[t].near_bal, pools[t].token_bal)
            /\ quote_covers(pools[t].token_bal, pools[t].near_bal)

\* the price of an amount of near that is the exact-out quote for some y of
\* tokens was asked, and it is more than y
C14_Witness ==
    /\ last.op = "price_near_to_token_in" /\ last.err = "ok"
    /\ \E y \in 1..(pools[last.token].token_bal - 1) :
          /\ last.lim = calc_in_amount(y, pools[last.token].token_bal,
                                       pools[last.token].near_bal)
          /\ last.tokens > y

\* C15: on a pool with near_bal = 0 or token_bal = 0, such as one created and
\* never funded, every price view and every swap that touches the pool, asked
\* for a positive amount, fails with E10 and changes nothing.
Rejected(A) ==
    /\ ENABLED A
    /\ ~ENABLED (A /\ ~(last'.err = "E10" /\ UNCHANGED <<contract, promises>>))

C15_EmptyPoolRejects ==
    \A t \in DOMAIN pools :
        depleted(pools[t].near_bal, pools[t].token_bal) =>
            \A n \in 1..MaxAmt, m \in Limits, c \in Users, x \in Users :
                /\ Rejected(price_near_to_token_in(t, n))
                /\ Rejected(price_near_to_token_out(t, n))
                /\ Rejected(price_token_to_near_in(t, n))
                /\ Rejected(price_token_to_near_out(t, n))
                /\ Rejected(swap_near_to_reserve_exact_in(c, t, n, m))
                /\ Rejected(swap_near_to_reserve_exact_in_xfr(c, t, n, m, x))
                /\ Rejected(swap_near_to_reserve_exact_out(c, t, m, n))
                /\ Rejected(swap_near_to_reserve_exact_out_xfr(c, t, m, n, x))
                /\ Rejected(swap_reserve_to_near_exact_in(c, t, n, m))
                /\ Rejected(swap_reserve_to_near_exact_in_xfr(c, t, n, m, x))
                /\ Rejected(swap_reserve_to_near_exact_out(c, t, n, m))
                /\ Rejected(swap_reserve_to_near_exact_out_xfr(c, t, n, m, x))
                /\ \A f \in DOMAIN pools \ {t} :
                      /\ Rejected(price_token_to_token_in(f, t, n))
                      /\ Rejected(price_token_to_token_in(t, f, n))
                      /\ Rejected(price_token_to_token_out(f, t, n))
                      /\ Rejected(price_token_to_token_out(t, f, n))
                      /\ Rejected(swap_tokens_exact_in(c, f, t, n, m))
                      /\ Rejected(swap_tokens_exact_in(c, t, f, n, m))
                      /\ Rejected(swap_tokens_exact_in_xfr(c, f, t, n, m, x))
                      /\ Rejected(swap_tokens_exact_in_xfr(c, t, f, n, m, x))
                      /\ Rejected(swap_tokens_exact_out(c, f, t, n, m))
                      /\ Rejected(swap_tokens_exact_out(c, t, f, n, m))
                      /\ Rejected(swap_tokens_exact_out_xfr(c, f, t, n, m, x))
                      /\ Rejected(swap_tokens_exact_out_xfr(c, t, f, n, m, x))

\* neither pool was ever funded, and a price was asked or a swap tried
C15_Witness ==
    /\ last.err = "E10"
    /\ \A t \in Tokens : t \in DOMAIN pools /\ pools[t] = Pool_new

\* C16: a token -> token exact-in swap from A to B pays the fee on each leg: the
\* output is calc_out_amount(calc_out_amount(tokens_in, A.token_bal, A.near_bal),
\* B.near_bal, B.token_bal); pool A gains tokens_in and loses the near in between,
\* pool B gains that near and loses the output; with the output below
\* min_tokens_to the swap fails and changes nothing.
fee_leg(in, R_in, R_out) == (in * 997 * R_out) \div (R_in * 1000 + in * 997)

two_legs(A, B, tokens_in) ==
    fee_leg(fee_leg(tokens_in, A.token_bal, A.near_bal), B.near_bal, B.token_bal)

\* the call: refused below the minimum, else the tokens are asked of the payer
tokens_exact_in_asked(c, f, t, n, m, x) ==
    IF two_legs(pools[f], pools[t], n) < m THEN
        last'.err = "E7" /\ UNCHANGED <<contract, promises>>
    ELSE
        /\ last'.err = "ok"
        /\ promises' = promises (+) SetToBag({
                Promise("_swap_tokens_exact_in", f, t, c, NoAccount, 0, x, n, 0, m, 0)})
        /\ UNCHANGED contract

\* the tokens arrived: both pools move, and the output leaves for the recipient
tokens_exact_in_settled(r) ==
    LET A == pools[r.token]
        B == pools[r.token2]
        near_swap == fee_leg(r.tokens, A.token_bal, A.near_bal)
        out == two_legs(A, B, r.tokens)
    IN  IF out < r.lim THEN
            last'.err = "E7" /\ UNCHANGED contract /\ promises' = Resolve(r)
        ELSE
            /\ last'.err = "ok"
            /\ pools' = [pools EXCEPT
                    ![r.token] = [A EXCEPT !.token_bal = @ + r.tokens,
                                           !.near_bal = @ - near_swap],
                    ![r.token2] = [B EXCEPT !.near_bal = @ + near_swap,
                                            !.token_bal = @ - out]]
            /\ promises' = Resolve(r) (+)
                    SetToBag({Transfers(r.token2, NoAccount, 0, r.token_to, out)})
            /\ UNCHANGED <<owner, fee_dst, pool_keys>>

C16_TwoHopExactIn ==
    /\ \A c \in Users, x \in Users, f \in DOMAIN pools, t \in DOMAIN pools,
          n \in Paid, m \in Limits :
            (/\ f # t
             /\ ~depleted(pools[f].token_bal, pools[f].near_bal)
             /\ ~depleted(pools[t].near_bal, pools[t].token_bal)) =>
                /\ ~ENABLED (/\ swap_tokens_exact_in(c, f, t, n, m)
                             /\ ~tokens_exact_in_asked(c, f, t, n, m, c))
                /\ ~ENABLED (/\ swap_tokens_exact_in_xfr(c, f, t, n, m, x)
                             /\ ~tokens_exact_in_asked(c, f, t, n, m, x))
                /\ two_legs(pools[f], pools[t], n) < m =>
                      ENABLED swap_tokens_exact_in(c, f, t, n, m)
    /\ \A r \in InFlight :
            r.kind = "_swap_tokens_exact_in" =>
                ~ENABLED (/\ swap_transfer_resolves(r, TRUE)
                          /\ ~tokens_exact_in_settled(r))

\* tokens of one pool were swapped for tokens of the other, each leg at its fee
C16_Witness ==
    /\ last.op = "swap_transfer_callback" /\ last.err = "ok"
    /\ last.tokens >= last.lim /\ last.tokens > 0
    /\ \E t \in DOMAIN pools \ {last.token}, n \in Paid :
          LET A == [pools[last.token] EXCEPT !.token_bal = @ - n,
                                             !.near_bal = @ + last.near]
              B == [pools[t] EXCEPT !.near_bal = @ - last.near,
                                    !.token_bal = @ + last.tokens]
          IN  /\ A.token_bal > 0 /\ B.near_bal > 0
              /\ last.near = fee_leg(n, A.token_bal, A.near_bal)
              /\ last.tokens = two_legs(A, B, n)
              /\ \E x \in Users :
                    Transfers(t, NoAccount, 0, x, last.tokens) \in InFlight

\* C17: in every reachable state every pool has near_bal, token_bal and
\* total_shares all zero or all strictly positive, whatever deposits, partial and
\* full withdrawals, swaps and callbacks came before.
C17_AllOrNothing ==
    \A t \in DOMAIN pools :
        LET p == pools[t]
        IN  \/ p.near_bal = 0 /\ p.token_bal = 0 /\ p.total_shares = 0
            \/ p.near_bal > 0 /\ p.token_bal > 0 /\ p.total_shares > 0

\* the provider redeemed all it held of a pool whose reserves had moved apart, beside a
\* pool that was never funded
C17_Witness ==
    /\ last.op = "withdraw_liquidity" /\ last.err = "ok"
    /\ pools[last.token].shares[last.caller] = 0
    /\ pools[last.token].near_bal # pools[last.token].token_bal
    /\ pools[last.token].total_shares > 0
    /\ \E t \in DOMAIN pools : pools[t] = Pool_new

\* C18: liquidity operations keep the backing of a share: every deposit into a
\* pool that already has shares, and every withdrawal that leaves total_shares
\* above zero, ends with near_bal' * total_shares >= near_bal * total_shares' and
\* token_bal' * total_shares >= token_bal * total_shares'.
C18_PerShareBacking ==
    [][(/\ last'.err = "ok"
        /\ \/ last'.op = "add_liquidity" /\ ~last'.first
           \/ last'.op = "withdraw_liquidity" /\ pools'[last'.token].total_shares > 0) =>
        LET p == pools[last'.token]
            q == pools'[last'.token]
        IN  /\ q.near_bal * p.total_shares >= p.near_bal * q.total_shares
            /\ q.token_bal * p.total_shares >= p.token_bal * q.total_shares]_vars

\* C19: add_liquidity_transfer_callback called by any account other than the
\* contract's own is rejected and changes nothing; only the contract itself runs
\* a completion callback.
C19_CallbackAuthenticated ==
    \A c \in Users, t \in Tokens :
        c # current_account_id =>
            /\ ENABLED add_liquidity_transfer_callback_called(c, t)
            /\ ~ENABLED (/\ add_liquidity_transfer_callback_called(c, t)
                         /\ ~(/\ last'.err = "Can be called only as a callback"
                              /\ UNCHANGED <<contract, promises>>))

\* an account called the callback while the transfer of a deposit was in flight
C19_Witness ==
    /\ last.err = "Can be called only as a callback"
    /\ \E r \in InFlight : r.kind = "add_liquidity" /\ pools[r.token].total_shares > 0

\* C20: when either of the two transfers that withdraw_liquidity sends to the
\* caller fails, a compensating credit is made: the shares redeemed are given
\* back to the caller, or what was withheld is sent again.
C20_FailedPayoutCompensated ==
    [][\A r \in InFlight :
        (/\ r.kind = "transfers" /\ r.near_to \in Users
         /\ promises' = Resolve(r)
         /\ last'.op = "transfers" /\ last'.err = "transfer failed") =>
            \/ pools'[r.token].shares[r.near_to] > pools[r.token].shares[r.near_to]
            \/ \E q \in InFlight' :
                  /\ q.kind = "transfers" /\ q.token = r.token
                  /\ q.near_to = r.near_to \/ q.token_to = r.near_to]_vars

\* C21: a deposit into a pool that already has shares requires
\* token_required = floor(near_in * token_bal / near_bal) + 1 tokens; it fails with
\* E3 when token_required > max_token_amount and with E4 when the shares it mints
\* are fewer than min_shares, changing neither pool nor shares and scheduling no
\* transfer; when it succeeds token_bal grows by token_required, near_bal by
\* near_in, and a transfer_from of exactly token_required from the caller is
\* scheduled.
subsequent_deposit_settled(c, t, near_in, max_token_amount, min_shares, minted) ==
    LET p == pools[t]
        token_required == ((near_in * p.token_bal) \div p.near_bal) + 1
    IN  IF token_required > max_token_amount THEN
            last'.err = "E3" /\ UNCHANGED <<contract, promises>>
        ELSE IF minted < min_shares THEN
            last'.err = "E4" /\ UNCHANGED <<contract, promises>>
        ELSE
            /\ last'.err = "ok"
            /\ pools'[t].token_bal = p.token_bal + token_required
            /\ pools'[t].near_bal = p.near_bal + near_in
            /\ \E r \in InFlight' \ InFlight :
                  /\ r.kind = "add_liquidity" /\ r.token = t
                  /\ r.from = c /\ r.token_to = current_account_id
                  /\ r.tokens = token_required

C21_SubsequentDeposit ==
    \A c \in Users, t \in DOMAIN pools, n \in 1..MaxAmt, m \in 1..MaxAmt,
       s \in MinShares :
        pools[t].total_shares > 0 =>
            ~ENABLED (/\ add_liquidity(c, t, n, m, s)
                      /\ ~subsequent_deposit_settled(c, t, n, m, s,
                            (n * pools[t].total_shares) \div pools[t].near_bal))

\* C22: a swap that starts from tokens (token -> near, token -> token) changes no
\* reserve until the transfer_from against its payer has succeeded: the call
\* itself only asks for the tokens, a failed transfer leaves every pool as it
\* was, and the output is sent in the step that commits the reserves, never
\* before.
TokenSwapOps == {"swap_reserve_to_near_exact_in", "swap_reserve_to_near_exact_in_xfr",
                 "swap_reserve_to_near_exact_out", "swap_reserve_to_near_exact_out_xfr",
                 "swap_tokens_exact_in", "swap_tokens_exact_in_xfr",
                 "swap_tokens_exact_out", "swap_tokens_exact_out_xfr"}

\* the call changes nothing and schedules at most the request for the tokens
Asks(A) ==
    ~ENABLED (/\ A
              /\ ~(/\ UNCHANGED contract
                   /\ \/ promises' = promises
                      \/ \E q \in InFlight' :
                            q.kind \in SwapKinds /\ promises' = Schedule(q)))

token_swap_asks ==
    \A t \in Tokens, n \in Paid, m \in Limits :
        LET c == "pre_near"
            x == "owner_near"
        IN  /\ Asks(swap_reserve_to_near_exact_in(c, t, n, m))
            /\ Asks(swap_reserve_to_near_exact_in_xfr(c, t, n, m, x))
            /\ Asks(swap_reserve_to_near_exact_out(c, t, n, m))
            /\ Asks(swap_reserve_to_near_exact_out_xfr(c, t, n, m, x))
            /\ \A f \in Tokens :
                  /\ Asks(swap_tokens_exact_in(c, f, t, n, m))
                  /\ Asks(swap_tokens_exact_in_xfr(c, f, t, n, m, x))
                  /\ Asks(swap_tokens_exact_out(c, f, t, n, m))
                  /\ Asks(swap_tokens_exact_out_xfr(c, f, t, n, m, x))

\* a failed transfer_from can always resolve, and then nothing is touched
inbound_failed_untouched ==
    \A r \in InFlight :
        r.kind \in SwapKinds =>
            /\ ENABLED swap_transfer_resolves(r, FALSE)
            /\ ~ENABLED (/\ swap_transfer_resolves(r, FALSE)
                         /\ ~(UNCHANGED contract /\ promises' = Resolve(r)))

\* behind a transfer_from that succeeded the reserves are committed and the
\* output is sent in the same step, or the swap is refused and nothing changes
inbound_succeeded_commits ==
    \A r \in InFlight :
        r.kind \in SwapKinds =>
            ~ENABLED (/\ swap_transfer_resolves(r, TRUE)
                      /\ ~(IF last'.err = "ok"
                           THEN /\ pools' # pools
                                /\ \E q \in InFlight' :
                                      /\ q.kind = "transfers"
                                      /\ promises' = Resolve(r) (+) SetToBag({q})
                           ELSE UNCHANGED contract /\ promises' = Resolve(r)))

C23_WideProducts ==
    \A c \in Users, t \in DOMAIN pools :
        LET p == pools[t] IN
        (p.total_shares > 0 /\ p.near_bal > 0) =>
            /\ \A n \in 1..MaxAmt :
                  LET q == ((n * p.token_bal) \div p.near_bal) + 1 IN
                  q <= BalanceMax =>
                      ~ENABLED (/\ add_liquidity(c, t, n, BalanceMax, 0)
                                /\ ~(last'.err = "ok" /\ last'.tokens = q))
            /\ \A s \in 1..MaxBal :
                  LET a == (s * p.near_bal) \div p.total_shares
                      b == (s * p.token_bal) \div p.total_shares
                  IN  s <= p.shares[c] =>
                      ~ENABLED (/\ withdraw_liquidity(c, t, s, 1, 1)
                                /\ ~(IF a < 1 \/ b < 1 THEN last'.err = "E6"
                                     ELSE /\ last'.err = "ok"
                                          /\ last'.near = a /\ last'.tokens = b))

\* C24: in every reachable state with no transfer pending, the token_bal of each
\* pool is at most what the contract received of that token less what it sent;
\* in particular the shares minted by a deposit whose transfer_from fails are
\* not there to be redeemed by a withdrawal before or after the failing callback.
C24_Solvent ==
    promises = EmptyBag =>
        \A t \in DOMAIN pools \cap DOMAIN held : pools[t].token_bal <= held[t]

\* C25: every swap leaves total_shares and every account's shares of every pool
\* unchanged, and leaves the pools it does not trade unchanged; every price_*
\* query and pool_info, list_pools and shares_balance_of leave the whole contract
\* state unchanged.
Reads(A) == ENABLED A /\ ~ENABLED (A /\ ~UNCHANGED <<contract, promises>>)

views_frame ==
    /\ Reads(list_pools_called)
    /\ \A t \in Tokens :
          /\ Reads(pool_info_called(t))
          /\ \A a \in Users : Reads(shares_balance_of_called(t, a))
          /\ \A n \in Amounts :
                /\ Reads(price_near_to_token_in(t, n))
                /\ Reads(price_near_to_token_out(t, n))
                /\ Reads(price_token_to_near_in(t, n))
                /\ Reads(price_token_to_near_out(t, n))
                /\ \A f \in Tokens :
                      /\ Reads(price_token_to_token_in(f, t, n))
                      /\ Reads(price_token_to_token_out(f, t, n))

\* what a swap trading the pools of T leaves alone
swap_frame(T) ==
    /\ UNCHANGED <<owner, fee_dst, pool_keys>>
    /\ DOMAIN pools' = DOMAIN pools
    /\ \A t \in DOMAIN pools :
          /\ pools'[t].total_shares = pools[t].total_shares
          /\ pools'[t].shares = pools[t].shares
          /\ t \notin T => pools'[t] = pools[t]

Trades(A, T) == ~ENABLED (A /\ ~swap_frame(T))

swaps_frame ==
    /\ \A t \in Tokens, n \in Paid, m \in Limits :
          LET c == "pre_near"
              x == "owner_near"
          IN  /\ Trades(swap_near_to_reserve_exact_in(c, t, n, m), {t})
              /\ Trades(swap_near_to_reserve_exact_in_xfr(c, t, n, m, x), {t})
              /\ Trades(swap_near_to_reserve_exact_out(c, t, n, m), {t})
              /\ Trades(swap_near_to_reserve_exact_out_xfr(c, t, n, m, x), {t})
              /\ Trades(swap_reserve_to_near_exact_in(c, t, n, m), {t})
              /\ Trades(swap_reserve_to_near_exact_in_xfr(c, t, n, m, x), {t})
              /\ Trades(swap_reserve_to_near_exact_out(c, t, n, m), {t})
              /\ Trades(swap_reserve_to_near_exact_out_xfr(c, t, n, m, x), {t})
              /\ \A f \in Tokens :
                    /\ Trades(swap_tokens_exact_in(c, f, t, n, m), {f, t})
                    /\ Trades(swap_tokens_exact_in_xfr(c, f, t, n, m, x), {f, t})
                    /\ Trades(swap_tokens_exact_out(c, f, t, n, m), {f, t})
                    /\ Trades(swap_tokens_exact_out_xfr(c, f, t, n, m, x), {f, t})
    /\ \A r \in InFlight, ok \in BOOLEAN :
          Trades(swap_transfer_resolves(r, ok), {r.token, r.token2})

C25_Frame == views_frame /\ swaps_frame

\* a swap moved the reserves of one pool: its shares are what the provider was
\* given, and the other pool is as it was seeded
C25_Witness ==
    /\ last.op \in SwapOps /\ last.err = "ok"
    /\ \E t \in DOMAIN pools :
          /\ pools[t].near_bal # MaxAmt /\ pools[t].token_bal # MaxAmt
          /\ pools[t].total_shares = MaxAmt
          /\ pools[t].shares["owner_near"] = MaxAmt
          /\ \E u \in DOMAIN pools \ {t} : pools[u] = Founded(MaxAmt, MaxAmt)
====
